---- MODULE Spec2Model ----
(***************************************************************************)
(* A model of the compute-shader sandbox: the matter grid of CASimulator,  *)
(* the brush (draw_matter / get_canvas_line), the per-frame systems that   *)
(* main() registers, and render().                                         *)
(*                                                                         *)
(* f32 values are modelled as rationals <<n, d>> in lowest terms, with the  *)
(* infinities <<1, 0>>, <<-1, 0>> and NaN <<0, 0>>. Pointer and brush       *)
(* arithmetic is exact; camera.scale, which accumulates one rounded         *)
(* multiplication per scroll event, is rounded as f32 rounds (to nearest,   *)
(* ties to even, gradual underflow, overflow to infinity) in a binary       *)
(* format of F32_PRECISION significand bits and largest exponent F32_EMAX   *)
(* (24 and 127 in f32). The canvas, the window and the brush are scaled     *)
(* down from 512x512 / 1024x1024 / 4.0 so that the grid can be enumerated.  *)
(***************************************************************************)
EXTENDS Integers, Sequences, FiniteSets, TLC

VARIABLES
    pc,               \* "start" | "idle" | "update" | "post_update" | "aborted" | "panicked"
    frame,            \* number of frames started
    CANVAS_SIZE_X,    \* main.rs consts, fixed by Init
    CANVAS_SIZE_Y,
    LOCAL_SIZE_X,
    LOCAL_SIZE_Y,
    matter_in,        \* CASimulator.matter_in : index -> u32 (empty domain before new)
    matter_out,       \* CASimulator.matter_out
    image,            \* CASimulator.image : index -> RGBA
    camera,           \* OrthographicCamera: [pos, scale]
    window,           \* primary window logical size <<w, h>>
    prev_pos,         \* PreviousMousePos.0 : NoPos or world Vec2
    current_pos,      \* CurrentMousePos.0
    settings,         \* DynamicSettings: [brush_radius, draw_matter]
    done,             \* Update-set systems that have finished in this frame
    running,          \* Update-set systems that have started and not yet returned
    stroke,           \* arguments of the CASimulator::draw_matter call in progress
    write_guard,      \* TRUE while draw_matter holds matter_in.write()
    gpu_in_flight,    \* TRUE while a submitted compute dispatch has not finished
    dispatched,       \* work group counts of the last dispatch, or NoDispatch
    frame_log,        \* events of the current frame, in order
    last_stroke,      \* history: the last completed CASimulator::draw_matter call
    stepped_since_write, \* history: a step() completed after the last brush write
    render_history,   \* history: outcome of render() in each frame so far
    control_events,   \* scroll ticks, pan frames, slider drags and resizes so far
    cursor,           \* Window::cursor_position(): NoCursor or logical position
    left_pressed      \* Input<MouseButton>::pressed(MouseButton::Left)

vars == <<pc, frame, CANVAS_SIZE_X, CANVAS_SIZE_Y, LOCAL_SIZE_X, LOCAL_SIZE_Y,
          matter_in, matter_out, image, camera, window, prev_pos, current_pos,
          settings, done, running, stroke, write_guard, gpu_in_flight,
          dispatched, frame_log, last_stroke, stepped_since_write,
          render_history, control_events, cursor, left_pressed>>

(***************************************************************************)
(* Bounds of the model.                                                    *)
(***************************************************************************)
MaxFrames == 2
MaxControlEvents == 1
MaxCanvas == 3
MaxReach == 3
MaxLocal == 2
MaxViewport == 3
F32_PRECISION == 5
F32_EMAX == 4

(***************************************************************************)
(* Program constants (scaled down).                                        *)
(***************************************************************************)
DEFAULT_CANVAS_SIZE_X == 4
DEFAULT_CANVAS_SIZE_Y == 4
DEFAULT_LOCAL_SIZE_X == 2
DEFAULT_LOCAL_SIZE_Y == 2
HEIGHT == 8
WINDOW_RESOLUTION == 8
DRAW_MATTER == 255
EMPTY_MATTER == 0

(***************************************************************************)
(* f32 arithmetic as exact rationals.                                      *)
(***************************************************************************)
Abs(a) == IF a < 0 THEN -a ELSE a

RECURSIVE GCD(_, _)
GCD(a, b) == IF b = 0 THEN a ELSE GCD(b, a % b)

Sign(a) == IF a < 0 THEN -1 ELSE IF a > 0 THEN 1 ELSE 0

Rat(n, d) ==
    LET g == GCD(Abs(n), d)
    IN  IF d = 0 THEN <<Sign(n), 0>>
        ELSE IF n = 0 THEN <<0, 1>> ELSE <<n \div g, d \div g>>

INFINITY == <<1, 0>>
NAN == <<0, 0>>
IsFinite(a) == a[2] # 0

RInt(k) == <<k, 1>>
RAdd(a, b) == Rat(a[1] * b[2] + b[1] * a[2], a[2] * b[2])
RSub(a, b) == Rat(a[1] * b[2] - b[1] * a[2], a[2] * b[2])
RMul(a, b) == Rat(a[1] * b[1], a[2] * b[2])
RDiv(a, b) == Rat(Sign(b[1]) * a[1] * b[2], a[2] * Abs(b[1]))
RLeq(a, b) == a # NAN /\ b # NAN /\ a[1] * b[2] <= b[1] * a[2]
RLess(a, b) == a # NAN /\ b # NAN /\ a[1] * b[2] < b[1] * a[2]

RECURSIVE Pow2(_)
Pow2(k) == IF k = 0 THEN 1 ELSE 2 * Pow2(k - 1)

\* 2^e for an integer e
RPow2(e) == IF e >= 0 THEN <<Pow2(e), 1>> ELSE <<1, Pow2(-e)>>

\* smallest exponent of a normal number
F32_EMIN == 1 - F32_EMAX

\* exponent of the binade of a finite q > 0 below 2^(F32_EMAX + 1); numbers below
\* the smallest normal number share its exponent (subnormals)
F32Exponent(q) ==
    CHOOSE e \in F32_EMIN .. F32_EMAX :
        /\ e = F32_EMIN \/ RLeq(RPow2(e), q)
        /\ RLess(q, RPow2(e + 1))

\* integer nearest to a rational q >= 0, ties to the even one
NearestEven(q) ==
    LET fl  == q[1] \div q[2]
        rem == q[1] - fl * q[2]
    IN  IF 2 * rem < q[2] THEN fl
        ELSE IF 2 * rem > q[2] THEN fl + 1
        ELSE IF fl % 2 = 0 THEN fl ELSE fl + 1

\* subnormal results are flushed to zero
F32RoundMagnitude_FlushToZero(q) ==
    IF ~RLess(q, RPow2(F32_EMAX + 1)) THEN INFINITY
    ELSE IF RLess(q, RPow2(F32_EMIN)) THEN RInt(0)
    ELSE LET ulp == RPow2(F32Exponent(q) - F32_PRECISION + 1)
             r   == RMul(RInt(NearestEven(RDiv(q, ulp))), ulp)
         IN  IF ~RLess(r, RPow2(F32_EMAX + 1)) THEN INFINITY ELSE r

\* a finite q > 0 rounded to the format
F32RoundMagnitude(q) ==
    IF ~RLess(q, RPow2(F32_EMAX + 1)) THEN INFINITY
    ELSE LET ulp == RPow2(F32Exponent(q) - F32_PRECISION + 1)
             r   == RMul(RInt(NearestEven(RDiv(q, ulp))), ulp)
         IN  IF ~RLess(r, RPow2(F32_EMAX + 1)) THEN INFINITY ELSE r

\* the result of an f32 operation whose exact value is q
F32Round(q) ==
    IF ~IsFinite(q) \/ q[1] = 0 THEN q
    ELSE RMul(RInt(Sign(q[1])), F32RoundMagnitude(<<Abs(q[1]), q[2]>>))

f32_mul(a, b) == F32Round(RMul(a, b))
f32_div(a, b) == F32Round(RDiv(a, b))

\* f32::round: to the nearest integer, halves away from zero
RRound(a) ==
    IF a[1] >= 0 THEN (2 * a[1] + a[2]) \div (2 * a[2])
    ELSE -((2 * (-a[1]) + a[2]) \div (2 * a[2]))

\* `as i32` of a rational: truncation toward zero
RTrunc(a) == IF a[1] >= 0 THEN a[1] \div a[2] ELSE -((-a[1]) \div a[2])

VAdd(u, v) == <<RAdd(u[1], v[1]), RAdd(u[2], v[2])>>
VSub(u, v) == <<RSub(u[1], v[1]), RSub(u[2], v[2])>>
VScale(u, s) == <<RMul(u[1], s), RMul(u[2], s)>>
VZero == <<RInt(0), RInt(0)>>

NoPos == <<>>
NoBuffer == <<>>
NoDispatch == <<>>
NoStroke == <<>>

(***************************************************************************)
(* utils.rs                                                                *)
(***************************************************************************)
\* cursor_to_world: (cursor - window/2) * camera_scale - camera_pos
cursor_to_world(win, cursor_position, camera_pos, camera_scale) ==
    LET half == <<Rat(win[1], 2), Rat(win[2], 2)>>
    IN  VSub(VScale(VSub(cursor_position, half), camera_scale), camera_pos)

\* MousePos::canvas_pos: world + half the canvas size
canvas_pos(world) ==
    VAdd(world, <<Rat(CANVAS_SIZE_X, 2), Rat(CANVAS_SIZE_Y, 2)>>)

\* line_drawing::Octant::new
Octant(start, end) ==
    LET dx0 == end[1] - start[1]
        dy0 == end[2] - start[2]
        v4  == IF dy0 < 0 THEN 4 ELSE 0
        dx1 == IF dy0 < 0 THEN -dx0 ELSE dx0
        dy1 == IF dy0 < 0 THEN -dy0 ELSE dy0
        v2  == IF dx1 < 0 THEN 2 ELSE 0
        dx2 == IF dx1 < 0 THEN dy1 ELSE dx1
        dy2 == IF dx1 < 0 THEN -dx1 ELSE dy1
        v1  == IF dx2 < dy2 THEN 1 ELSE 0
    IN  v4 + v2 + v1

\* line_drawing::Octant::to
OctantTo(o, p) ==
    CASE o = 0 -> <<p[1], p[2]>>
      [] o = 1 -> <<p[2], p[1]>>
      [] o = 2 -> <<p[2], -p[1]>>
      [] o = 3 -> <<-p[1], p[2]>>
      [] o = 4 -> <<-p[1], -p[2]>>
      [] o = 5 -> <<-p[2], -p[1]>>
      [] o = 6 -> <<-p[2], p[1]>>
      [] o = 7 -> <<p[1], -p[2]>>

\* line_drawing::Octant::from
OctantFrom(o, p) ==
    CASE o = 0 -> <<p[1], p[2]>>
      [] o = 1 -> <<p[2], p[1]>>
      [] o = 2 -> <<-p[2], p[1]>>
      [] o = 3 -> <<-p[1], p[2]>>
      [] o = 4 -> <<-p[1], -p[2]>>
      [] o = 5 -> <<-p[2], -p[1]>>
      [] o = 6 -> <<p[2], -p[1]>>
      [] o = 7 -> <<p[1], -p[2]>>

\* line_drawing::Bresenham as Iterator: next() until None, collected
RECURSIVE BresenhamNext(_, _, _, _, _, _, _)
BresenhamNext(o, px, py, err, end_x, delta_x, delta_y) ==
    IF px <= end_x
    THEN LET up == err >= 0
             ny == IF up THEN py + 1 ELSE py
             e1 == IF up THEN err - delta_x ELSE err
         IN  <<OctantFrom(o, <<px, py>>)>> \o
             BresenhamNext(o, px + 1, ny, e1 + delta_y, end_x, delta_x, delta_y)
    ELSE <<>>

\* line_drawing::Bresenham::new(start, end), iterated to the end
Bresenham(start, end) ==
    LET o  == Octant(start, end)
        s  == OctantTo(o, start)
        e  == OctantTo(o, end)
        delta_x == e[1] - s[1]
        delta_y == e[2] - s[2]
    IN  BresenhamNext(o, s[1], s[2], delta_y - delta_x, e[1], delta_x, delta_y)

RoundPos(v) == <<RRound(v[1]), RRound(v[2])>>
FloorishPos(v) == <<RTrunc(v[1]), RTrunc(v[2])>>

\* `as i32` without .round()
LineEndpoint_NoRound(v) == FloorishPos(v)

\* the two end points get_canvas_line hands to Bresenham:
\* (v.x.round() as i32, v.y.round() as i32)
LineEndpoint(v) == RoundPos(v)

\* get_canvas_line(prev, current)
get_canvas_line(prev, current) ==
    LET cpos == canvas_pos(current)
        ppos == IF prev # NoPos THEN canvas_pos(prev) ELSE cpos
    IN  Bresenham(LineEndpoint(ppos), LineEndpoint(cpos))

(***************************************************************************)
(* ca_simulator.rs                                                         *)
(***************************************************************************)
\* empty_grid(allocator, width, height): vec![0; width * height]
empty_grid(width, height) == [i \in 0 .. (width * height - 1) |-> 0]

\* CASimulator::is_inside
is_inside(pos) ==
    pos[1] >= 0 /\ pos[1] < CANVAS_SIZE_X /\ pos[2] >= 0 /\ pos[2] < CANVAS_SIZE_Y

\* CASimulator::index
index(pos) == pos[2] * CANVAS_SIZE_Y + pos[1]

\* .distance() truncated instead of rounded
RoundedDistance_Truncated(dx, dy) ==
    LET q == dx * dx + dy * dy
    IN  CHOOSE n \in 0 .. (Abs(dx) + Abs(dy) + 1) : n * n <= q /\ q < (n + 1) * (n + 1)

\* world_pos.distance(pos).round() for an integer offset (dx, dy): the n with
\* n - 1/2 <= sqrt(dx^2 + dy^2) < n + 1/2
RoundedDistance(dx, dy) ==
    LET q == 4 * (dx * dx + dy * dy)
    IN  CHOOSE n \in 0 .. (Abs(dx) + Abs(dy) + 1) :
            /\ (n = 0 \/ (2 * n - 1) * (2 * n - 1) <= q)
            /\ q < (2 * n + 1) * (2 * n + 1)

\* the distance test without the bounds test
BrushHits_Unclipped(pos, x, y, radius) ==
    RLeq(RInt(RoundedDistance(x - pos[1], y - pos[2])), radius)

\* the bounds test without the distance test: the whole box of the loops is filled
BrushHits_Box(pos, x, y, radius) == is_inside(<<x, y>>)

\* the test of the inner loop body of draw_matter for cell (x, y) of the disc at pos
BrushHits(pos, x, y, radius) ==
    /\ RLeq(RInt(RoundedDistance(x - pos[1], y - pos[2])), radius)
    /\ is_inside(<<x, y>>)

\* for x in x..=x2 of draw_matter: the indices written, in order
RECURSIVE DiscRow(_, _, _, _, _)
DiscRow(pos, y, x, x2, radius) ==
    IF x > x2 THEN <<>>
    ELSE (IF BrushHits(pos, x, y, radius) THEN <<index(<<x, y>>)>> ELSE <<>>)
         \o DiscRow(pos, y, x + 1, x2, radius)

\* for y in y..=y2 of draw_matter
RECURSIVE DiscRows(_, _, _, _)
DiscRows(pos, y, y2, radius) ==
    IF y > y2 THEN <<>>
    ELSE DiscRow(pos, y, pos[1] - RTrunc(radius), pos[1] + RTrunc(radius), radius)
         \o DiscRows(pos, y + 1, y2, radius)

\* the guard at the head of the loop over the line: `if !is_inside(pos) continue`
WalkPointDrawn(pos) == is_inside(pos)

\* for &pos in line.iter() of draw_matter: every index written, in order
RECURSIVE DrawWrites(_, _, _)
DrawWrites(line, k, radius) ==
    IF k > Len(line) THEN <<>>
    ELSE (IF WalkPointDrawn(line[k])
          THEN DiscRows(line[k], line[k][2] - RTrunc(radius),
                        line[k][2] + RTrunc(radius), radius)
          ELSE <<>>)
         \o DrawWrites(line, k + 1, radius)

\* the slice index matter_in[i]: in range, or the panic of an out-of-range index
InBuffer(buf, i) == i \in DOMAIN buf

\* the writes of draw_matter up to (not including) the first out-of-range index
RECURSIVE WritesBeforePanic(_, _, _)
WritesBeforePanic(buf, ws, k) ==
    IF k > Len(ws) \/ ~InBuffer(buf, ws[k]) THEN {}
    ELSE {ws[k]} \cup WritesBeforePanic(buf, ws, k + 1)

DrawPanics(buf, ws) == \E k \in 1 .. Len(ws) : ~InBuffer(buf, ws[k])

\* matter_in after the loop of draw_matter
ApplyWrites(buf, ws, matter) ==
    LET wset == WritesBeforePanic(buf, ws, 1)
    IN  [i \in DOMAIN buf |-> IF i \in wset THEN matter ELSE buf[i]]

\* only the width is asserted
CanvasDivisible_WidthOnly == CANVAS_SIZE_X % LOCAL_SIZE_X = 0

\* the asserts of CASimulator::new
CanvasDivisible ==
    /\ CANVAS_SIZE_X % LOCAL_SIZE_X = 0
    /\ CANVAS_SIZE_Y % LOCAL_SIZE_Y = 0

\* the height divided by the tile width
NUM_WORK_GROUPS_Y_TileX == CANVAS_SIZE_Y \div LOCAL_SIZE_X

\* main.rs: NUM_WORK_GROUPS_X / NUM_WORK_GROUPS_Y
NUM_WORK_GROUPS_X == CANVAS_SIZE_X \div LOCAL_SIZE_X
NUM_WORK_GROUPS_Y == CANVAS_SIZE_Y \div LOCAL_SIZE_Y

(***************************************************************************)
(* compute_shaders/color.glsl (not among the sources; from the shader      *)
(* contract: one invocation per cell of each work group tile, colouring    *)
(* the pixel of its cell from the matter id of the grid bound at 0)        *)
(***************************************************************************)
\* global invocation ids of a dispatch of groups = <<gx, gy>> tiles
Invocations(groups) ==
    {<<g[1] * LOCAL_SIZE_X + l[1], g[2] * LOCAL_SIZE_Y + l[2]>> :
        g \in (0 .. groups[1] - 1) \X (0 .. groups[2] - 1),
        l \in (0 .. LOCAL_SIZE_X - 1) \X (0 .. LOCAL_SIZE_Y - 1)}

\* u32 matter id unpacked to RGBA8
matter_color(m) ==
    <<(m \div 16777216) % 256, (m \div 65536) % 256, (m \div 256) % 256, m % 256>>

\* row-major cell of a linear buffer position
CellIndex(pos) == pos[2] * CANVAS_SIZE_X + pos[1]

\* main() of the shader over all invocations of the dispatch
color_cs_main(grid_in, img, groups) ==
    LET live == {CellIndex(p) : p \in {q \in Invocations(groups) : is_inside(q)}}
    IN  [i \in DOMAIN img |->
            IF i \in live /\ i \in DOMAIN grid_in THEN matter_color(grid_in[i]) ELSE img[i]]

\* the two grids bound the other way round
dispatch_bindings_Swapped == [b0 |-> matter_out, b1 |-> matter_in, b2 |-> image]

\* CASimulator::dispatch: bindings 0, 1, 2 and the work group counts
dispatch_bindings == [b0 |-> matter_in, b1 |-> matter_out, b2 |-> image]
dispatch_groups == <<NUM_WORK_GROUPS_X, NUM_WORK_GROUPS_Y>>

(***************************************************************************)
(* camera.rs (not among the sources; from the camera contract)             *)
(***************************************************************************)
NoCamera == <<>>
NoSettings == <<>>

\* OrthographicCamera::default
camera_default == [pos |-> VZero, scale |-> RInt(1), viewport |-> <<0, 0>>]

\* OrthographicCamera::zoom_to_fit_vertical_pixels(target, viewport_height)
zoom_to_fit_vertical_pixels(cam, target, viewport_height) ==
    [cam EXCEPT !.scale = Rat(target, viewport_height)]

\* OrthographicCamera::update(width, height)
camera_update(cam, w, h) == [cam EXCEPT !.viewport = <<w, h>>]

(***************************************************************************)
(* Inputs of the systems.                                                  *)
(***************************************************************************)
\* (x_axis, y_axis) of input_actions; only unit-length directions, for which
\* move_delta / move_delta.length() is exact
PanDirs == {<<0, 0>>, <<1, 0>>}
\* time.delta_seconds() * CAMERA_MOVE_SPEED
PanStep == RInt(1)
\* the MouseWheel events of a frame: none, or one with e.y < 0, or one with e.y > 0
ScrollEvents == {<<>>, <<-1>>, <<1>>}
\* window.cursor_position(): None, or Some(logical position)
NoCursor == <<>>
CursorChoices == {<<RInt(1), RInt(1)>>, <<RInt(5), RInt(2)>>}
\* values the brush radius slider is dragged to (range 0.5 ..= 30.0)
SliderChoices == {<<1, 2>>}
\* DynamicSettings::default().brush_radius
DEFAULT_BRUSH_RADIUS == RInt(2)
\* logical sizes the resizable window takes
WindowSizes == {<<WINDOW_RESOLUTION, WINDOW_RESOLUTION>>, <<WINDOW_RESOLUTION - 2, WINDOW_RESOLUTION>>}

UNDEFINED_PIXEL == <<>>

(***************************************************************************)
(* main.rs: the systems of the Update set and their resource access.       *)
(***************************************************************************)
Systems == {"input_actions", "update_camera", "update_mouse", "draw_matter",
            "simulate", "user_interface"}

\* resources a system takes mutably (ResMut) and immutably (Res / Query<&_>)
SysWrites(s) ==
    CASE s = "input_actions"  -> {"camera"}
      [] s = "update_camera"  -> {"camera"}
      [] s = "update_mouse"   -> {"prev", "current"}
      [] s = "draw_matter"    -> {"simulator"}
      [] s = "simulate"       -> {"simulator"}
      [] s = "user_interface" -> {"settings"}

SysReads(s) ==
    CASE s = "input_actions"  -> {"time", "keyboard", "wheel"}
      [] s = "update_camera"  -> {"window"}
      [] s = "update_mouse"   -> {"window", "camera"}
      [] s = "draw_matter"    -> {"prev", "current", "mouse_button", "settings"}
      [] s = "simulate"       -> {}
      [] s = "user_interface" -> {"diagnostics"}

Conflict(a, b) ==
    \/ SysWrites(a) \cap (SysWrites(b) \cup SysReads(b)) # {}
    \/ SysWrites(b) \cap SysReads(a) # {}

\* ordering constraints between the systems of the Update set: add_system is
\* called with no .before / .after / .chain, so there are none
MustRunBefore(a, b) == FALSE

\* the executor may start s: once per frame, not while a conflicting system runs,
\* after the systems ordered before it
CanStart(s) ==
    /\ pc = "update"
    /\ s \notin done \cup running
    /\ \A r \in running : ~Conflict(s, r)
    /\ \A b \in Systems : MustRunBefore(b, s) => b \in done

(***************************************************************************)
(* Initial states.                                                         *)
(***************************************************************************)
InitRest ==
    /\ pc = "start"
    /\ frame = 0
    /\ matter_in = NoBuffer
    /\ matter_out = NoBuffer
    /\ image = NoBuffer
    /\ camera = NoCamera
    /\ window = <<WINDOW_RESOLUTION, WINDOW_RESOLUTION>>
    /\ prev_pos = NoPos
    /\ current_pos = NoPos
    /\ settings = NoSettings
    /\ done = {}
    /\ running = {}
    /\ stroke = NoStroke
    /\ write_guard = FALSE
    /\ gpu_in_flight = FALSE
    /\ dispatched = NoDispatch
    /\ frame_log = <<>>
    /\ last_stroke = NoStroke
    /\ stepped_since_write = FALSE
    /\ render_history = <<>>
    /\ control_events = 0
    /\ cursor = NoCursor
    /\ left_pressed = FALSE

\* the program as built: the canvas and tile sizes of main.rs
Init ==
    /\ CANVAS_SIZE_X = DEFAULT_CANVAS_SIZE_X
    /\ CANVAS_SIZE_Y = DEFAULT_CANVAS_SIZE_Y
    /\ LOCAL_SIZE_X = DEFAULT_LOCAL_SIZE_X
    /\ LOCAL_SIZE_Y = DEFAULT_LOCAL_SIZE_Y
    /\ InitRest

\* the program built with any canvas and tile sizes
InitAnySize ==
    /\ CANVAS_SIZE_X \in 1 .. MaxCanvas
    /\ CANVAS_SIZE_Y \in 1 .. MaxCanvas
    /\ LOCAL_SIZE_X \in 1 .. MaxLocal
    /\ LOCAL_SIZE_Y \in 1 .. MaxLocal
    /\ InitRest

Consts == <<CANVAS_SIZE_X, CANVAS_SIZE_Y, LOCAL_SIZE_X, LOCAL_SIZE_Y>>

(***************************************************************************)
(* setup (startup system) with CASimulator::new                            *)
(***************************************************************************)
Setup ==
    /\ pc = "start"
    /\ IF CanvasDivisible
       THEN /\ pc' = "idle"
            /\ matter_in' = empty_grid(CANVAS_SIZE_X, CANVAS_SIZE_Y)
            /\ matter_out' = empty_grid(CANVAS_SIZE_X, CANVAS_SIZE_Y)
            /\ image' = [i \in 0 .. (CANVAS_SIZE_X * CANVAS_SIZE_Y - 1) |-> UNDEFINED_PIXEL]
            /\ camera' = zoom_to_fit_vertical_pixels(camera_default, CANVAS_SIZE_Y, HEIGHT)
            /\ settings' = [brush_radius |-> DEFAULT_BRUSH_RADIUS, draw_matter |-> DRAW_MATTER]
       ELSE /\ pc' = "aborted"
            /\ UNCHANGED <<matter_in, matter_out, image, camera, settings>>
    /\ prev_pos' = NoPos
    /\ current_pos' = NoPos
    /\ UNCHANGED <<frame, Consts, cursor, left_pressed, window, done, running, stroke, write_guard,
                   gpu_in_flight, dispatched, frame_log, last_stroke,
                   stepped_since_write, render_history, control_events>>

(***************************************************************************)
(* Between frames: window events, then the next run of the schedule. The   *)
(* cursor and mouse button events that arrived since the last frame are    *)
(* applied to the window and to Input<MouseButton> before the Update set.  *)
(***************************************************************************)
Resize ==
    /\ pc = "idle"
    /\ control_events < MaxControlEvents
    /\ control_events' = control_events + 1
    /\ \E w \in WindowSizes : w # window /\ window' = w
    /\ UNCHANGED <<pc, frame, Consts, cursor, left_pressed, matter_in, matter_out, image, camera, prev_pos,
                   current_pos, settings, done, running, stroke, write_guard,
                   gpu_in_flight, dispatched, frame_log, last_stroke,
                   stepped_since_write, render_history>>

BeginFrame ==
    /\ pc = "idle"
    /\ frame < MaxFrames
    /\ pc' = "update"
    /\ frame' = frame + 1
    /\ done' = {}
    /\ frame_log' = <<>>
    /\ last_stroke' = NoStroke
    /\ cursor' \in CursorChoices \cup {NoCursor}
    /\ left_pressed' \in BOOLEAN
    /\ UNCHANGED <<Consts, matter_in, matter_out, image, camera, window, prev_pos,
                   current_pos, settings, running, stroke, write_guard,
                   gpu_in_flight, dispatched, stepped_since_write, render_history,
                   control_events>>

(***************************************************************************)
(* input_actions                                                           *)
(***************************************************************************)
\* the literal 1.05
ZOOM_FACTOR == F32Round(Rat(21, 20))

\* one MouseWheel event applied to the scale:
\* `camera.scale *= 1.05` or `camera.scale *= 1.0 / 1.05`
zoom_tick(scale, ey) ==
    IF ey < 0 THEN f32_mul(scale, ZOOM_FACTOR)
    ELSE f32_mul(scale, f32_div(RInt(1), ZOOM_FACTOR))

RECURSIVE zoom_all(_, _, _)
zoom_all(scale, events, k) ==
    IF k > Len(events) THEN scale ELSE zoom_all(zoom_tick(scale, events[k]), events, k + 1)

InputCost(dir, events) == (IF dir # <<0, 0>> THEN 1 ELSE 0) + Len(events)

InputActions ==
    /\ CanStart("input_actions")
    /\ \E dir \in PanDirs, events \in ScrollEvents :
        /\ control_events + InputCost(dir, events) <= MaxControlEvents
        /\ camera' = [camera EXCEPT
                        !.pos = IF dir # <<0, 0>>
                                THEN VAdd(@, VScale(<<RInt(dir[1]), RInt(dir[2])>>, PanStep))
                                ELSE @,
                        !.scale = zoom_all(@, events, 1)]
        /\ control_events' = control_events + InputCost(dir, events)
    /\ done' = done \cup {"input_actions"}
    /\ UNCHANGED <<pc, frame, Consts, cursor, left_pressed, matter_in, matter_out, image, window, prev_pos,
                   current_pos, settings, running, stroke, write_guard, gpu_in_flight,
                   dispatched, frame_log, last_stroke, stepped_since_write,
                   render_history>>

(***************************************************************************)
(* update_camera                                                           *)
(***************************************************************************)
UpdateCamera ==
    /\ CanStart("update_camera")
    /\ camera' = camera_update(camera, window[1], window[2])
    /\ done' = done \cup {"update_camera"}
    /\ UNCHANGED <<pc, frame, Consts, cursor, left_pressed, matter_in, matter_out, image, window, prev_pos,
                   current_pos, settings, running, stroke, write_guard, gpu_in_flight,
                   dispatched, frame_log, last_stroke, stepped_since_write,
                   render_history, control_events>>

(***************************************************************************)
(* update_mouse                                                            *)
(***************************************************************************)
UpdateMouse ==
    /\ CanStart("update_mouse")
    /\ prev_pos' = current_pos
    /\ current_pos' =
            IF cursor # NoCursor
            THEN cursor_to_world(window, cursor, camera.pos, camera.scale)
            ELSE current_pos
    /\ done' = done \cup {"update_mouse"}
    /\ UNCHANGED <<pc, frame, Consts, cursor, left_pressed, matter_in, matter_out, image, camera, window,
                   settings, running, stroke, write_guard, gpu_in_flight, dispatched,
                   frame_log, last_stroke, stepped_since_write, render_history,
                   control_events>>

(***************************************************************************)
(* user_interface (gui.rs): the brush radius slider                        *)
(***************************************************************************)
UserInterface ==
    /\ CanStart("user_interface")
    /\ \E r \in SliderChoices \cup {settings.brush_radius} :
        /\ r # settings.brush_radius => control_events < MaxControlEvents
        /\ settings' = [settings EXCEPT !.brush_radius = r]
        /\ control_events' = IF r # settings.brush_radius THEN control_events + 1
                              ELSE control_events
    /\ done' = done \cup {"user_interface"}
    /\ UNCHANGED <<pc, frame, Consts, cursor, left_pressed, matter_in, matter_out, image, camera, window,
                   prev_pos, current_pos, running, stroke, write_guard, gpu_in_flight,
                   dispatched, frame_log, last_stroke, stepped_since_write,
                   render_history>>

(***************************************************************************)
(* draw_matter (system) and CASimulator::draw_matter                       *)
(***************************************************************************)
\* the button is not asked for
ShouldDraw_AnyButton(cur, pressed) == cur # NoPos

\* `if let Some(current) = current.0 { if mouse_button_input.pressed(Left) {`
ShouldDraw(cur, pressed) == cur # NoPos /\ pressed

\* Subbuffer::write(): Ok unless the device is using the buffer
BufferWriteOk == ~gpu_in_flight

DrawMatterBegin ==
    /\ CanStart("draw_matter")
    /\ IF ShouldDraw(current_pos, left_pressed)
       THEN IF BufferWriteOk
            THEN /\ stroke' = [line |-> get_canvas_line(prev_pos, current_pos),
                               radius |-> settings.brush_radius,
                               matter |-> settings.draw_matter]
                 /\ write_guard' = TRUE
                 /\ running' = running \cup {"draw_matter"}
                 /\ UNCHANGED <<pc, done>>
            ELSE /\ pc' = "panicked"
                 /\ UNCHANGED <<stroke, write_guard, running, done>>
       ELSE /\ done' = done \cup {"draw_matter"}
            /\ UNCHANGED <<pc, stroke, write_guard, running>>
    /\ UNCHANGED <<frame, Consts, cursor, left_pressed, matter_in, matter_out, image, camera, window,
                   prev_pos, current_pos, settings, gpu_in_flight, dispatched,
                   frame_log, last_stroke, stepped_since_write, render_history,
                   control_events>>

DrawMatterEnd ==
    /\ pc = "update"
    /\ "draw_matter" \in running
    /\ \E ws \in {DrawWrites(stroke.line, 1, stroke.radius)} :
           /\ matter_in' = ApplyWrites(matter_in, ws, stroke.matter)
           /\ IF DrawPanics(matter_in, ws)
              THEN /\ pc' = "panicked"
                   /\ UNCHANGED <<done, frame_log, last_stroke>>
              ELSE /\ pc' = pc
                   /\ done' = done \cup {"draw_matter"}
                   /\ frame_log' = Append(frame_log, "brush")
                   /\ last_stroke' = [line |-> stroke.line, radius |-> stroke.radius,
                                      matter |-> stroke.matter,
                                      writes |-> {ws[k] : k \in 1 .. Len(ws)}]
    /\ running' = running \ {"draw_matter"}
    /\ stroke' = NoStroke
    /\ write_guard' = FALSE
    /\ stepped_since_write' = FALSE
    /\ UNCHANGED <<frame, Consts, cursor, left_pressed, matter_out, image, camera, window, prev_pos,
                   current_pos, settings, gpu_in_flight, dispatched, render_history,
                   control_events>>

(***************************************************************************)
(* simulate -> CASimulator::step                                           *)
(***************************************************************************)
\* command_buffer.execute(queue): the dispatch is handed to the compute queue
StepSubmit ==
    /\ CanStart("simulate")
    /\ running' = running \cup {"simulate"}
    /\ dispatched' = dispatch_groups
    /\ gpu_in_flight' = TRUE
    /\ frame_log' = Append(frame_log, "step")
    /\ UNCHANGED <<pc, frame, Consts, cursor, left_pressed, matter_in, matter_out, image, camera, window,
                   prev_pos, current_pos, settings, done, stroke, write_guard,
                   last_stroke, stepped_since_write, render_history, control_events>>

\* the future is kept alive past the end of step(): nothing waits for the fence
InFlightAfterStep_NoWait(in_flight) == in_flight

\* `let _fut = finished.then_signal_fence_and_flush().unwrap();` and the end of
\* the scope: the fence future is dropped, which waits for the fence
InFlightAfterStep(in_flight) == FALSE

StepFinish ==
    /\ pc = "update"
    /\ "simulate" \in running
    /\ image' = color_cs_main(dispatch_bindings.b0, dispatch_bindings.b2, dispatched)
    /\ gpu_in_flight' = InFlightAfterStep(gpu_in_flight)
    /\ running' = running \ {"simulate"}
    /\ done' = done \cup {"simulate"}
    /\ stepped_since_write' = TRUE
    /\ UNCHANGED <<pc, frame, Consts, cursor, left_pressed, matter_in, matter_out, camera, window, prev_pos,
                   current_pos, settings, stroke, write_guard, dispatched, frame_log,
                   last_stroke, render_history, control_events>>

(***************************************************************************)
(* render (PostUpdate)                                                     *)
(***************************************************************************)
\* the Err arm does not return
RenderEvents_FallThrough(acquired) == <<"draw", "gui", "present">>

\* what render does after renderer.acquire() returned Ok (acquired) or Err
RenderEvents(acquired) ==
    IF acquired THEN <<"draw", "gui", "present">> ELSE <<>>

Render ==
    /\ pc = "update"
    /\ done = Systems
    /\ running = {}
    /\ \E acquired \in BOOLEAN :
        /\ frame_log' = frame_log \o RenderEvents(acquired)
        /\ render_history' = Append(render_history,
                                    IF acquired THEN "acquired" ELSE "failed")
    /\ pc' = "idle"
    /\ UNCHANGED <<frame, Consts, cursor, left_pressed, matter_in, matter_out, image, camera, window,
                   prev_pos, current_pos, settings, done, running, stroke, write_guard,
                   gpu_in_flight, dispatched, last_stroke, stepped_since_write,
                   control_events>>

Next ==
    \/ Setup
    \/ Resize
    \/ BeginFrame
    \/ InputActions
    \/ UpdateCamera
    \/ UpdateMouse
    \/ UserInterface
    \/ DrawMatterBegin
    \/ DrawMatterEnd
    \/ StepSubmit
    \/ StepFinish
    \/ Render

Spec == Init /\ [][Next]_vars

SpecAnySize == InitAnySize /\ [][Next]_vars

(***************************************************************************)
(* The brush on its own: the state after setup in which the draw_matter    *)
(* system is about to run, with the pointer trail and the brush radius     *)
(* drawn from bounded sets (world coordinates in steps of 1/2, reaching    *)
(* past every edge of the canvas). The grid is empty, in the first frame,  *)
(* or holds the stroke of the frame before, which step() has coloured.     *)
(***************************************************************************)
\* the current grid after a stroke of one point at (1, 1) with radius 1
PaintedGrid ==
    ApplyWrites(empty_grid(CANVAS_SIZE_X, CANVAS_SIZE_Y),
                DrawWrites(<<(<<1, 1>>)>>, 1, RInt(1)), DRAW_MATTER)

BrushCoords == {Rat(h, 2) : h \in (-2 * MaxReach) .. (2 * MaxReach)}
BrushPositions == BrushCoords \X BrushCoords
BrushRadii == SliderChoices \cup {DEFAULT_BRUSH_RADIUS, RInt(1)}

InitBrush ==
    /\ CANVAS_SIZE_X = DEFAULT_CANVAS_SIZE_X
    /\ CANVAS_SIZE_Y = DEFAULT_CANVAS_SIZE_Y
    /\ LOCAL_SIZE_X = DEFAULT_LOCAL_SIZE_X
    /\ LOCAL_SIZE_Y = DEFAULT_LOCAL_SIZE_Y
    /\ pc = "update"
    /\ \E painted \in BOOLEAN :
          /\ frame = IF painted THEN 2 ELSE 1
          /\ matter_in = IF painted THEN PaintedGrid
                         ELSE empty_grid(CANVAS_SIZE_X, CANVAS_SIZE_Y)
          /\ image = [i \in 0 .. (CANVAS_SIZE_X * CANVAS_SIZE_Y - 1) |->
                         IF painted THEN matter_color(PaintedGrid[i])
                         ELSE UNDEFINED_PIXEL]
    /\ matter_out = empty_grid(CANVAS_SIZE_X, CANVAS_SIZE_Y)
    /\ camera = zoom_to_fit_vertical_pixels(camera_default, CANVAS_SIZE_Y, HEIGHT)
    /\ window = <<WINDOW_RESOLUTION, WINDOW_RESOLUTION>>
    /\ prev_pos \in BrushPositions \cup {NoPos}
    /\ current_pos \in BrushPositions
    /\ \E r \in BrushRadii :
        settings = [brush_radius |-> r, draw_matter |-> DRAW_MATTER]
    /\ done = {"update_mouse"}
    /\ running = {}
    /\ stroke = NoStroke
    /\ write_guard = FALSE
    /\ gpu_in_flight = FALSE
    /\ dispatched = NoDispatch
    /\ frame_log = <<>>
    /\ last_stroke = NoStroke
    /\ stepped_since_write = FALSE
    /\ render_history = <<>>
    /\ control_events = 0
    /\ cursor = NoCursor
    /\ left_pressed \in BOOLEAN

NextBrush ==
    \/ DrawMatterBegin
    \/ DrawMatterEnd

SpecBrush == InitBrush /\ [][NextBrush]_vars

(***************************************************************************)
(* The camera on its own: a frame after setup in which draw_matter,        *)
(* simulate and user_interface have run and input_actions, update_camera   *)
(* and update_mouse are still to run, in any order. The scale is any value *)
(* that scroll events produce from the startup scale, the window has any   *)
(* (small) size, and the cursor is absent, at the window's origin or at    *)
(* its centre.                                                             *)
(***************************************************************************)
RECURSIVE ZoomOrbit(_)
ZoomOrbit(S) ==
    LET T == S \cup {zoom_tick(x, -1) : x \in S} \cup {zoom_tick(x, 1) : x \in S}
    IN  IF T = S THEN S ELSE ZoomOrbit(T)

StartupCamera == zoom_to_fit_vertical_pixels(camera_default, CANVAS_SIZE_Y, HEIGHT)
CameraScales == ZoomOrbit({StartupCamera.scale})
CameraPositions == {VScale(<<RInt(d[1]), RInt(d[2])>>, PanStep) : d \in PanDirs}
ViewportSizes == (1 .. MaxViewport) \X (1 .. MaxViewport)
ViewportCentre(win) == <<Rat(win[1], 2), Rat(win[2], 2)>>

InitCamera ==
    /\ CANVAS_SIZE_X = DEFAULT_CANVAS_SIZE_X
    /\ CANVAS_SIZE_Y = DEFAULT_CANVAS_SIZE_Y
    /\ LOCAL_SIZE_X = DEFAULT_LOCAL_SIZE_X
    /\ LOCAL_SIZE_Y = DEFAULT_LOCAL_SIZE_Y
    /\ pc = "update"
    /\ frame = 1
    /\ matter_in = empty_grid(CANVAS_SIZE_X, CANVAS_SIZE_Y)
    /\ matter_out = empty_grid(CANVAS_SIZE_X, CANVAS_SIZE_Y)
    /\ image = [i \in 0 .. (CANVAS_SIZE_X * CANVAS_SIZE_Y - 1) |-> matter_color(EMPTY_MATTER)]
    /\ window \in ViewportSizes
    /\ \E sc \in CameraScales, p \in CameraPositions :
          camera = [StartupCamera EXCEPT !.scale = sc, !.pos = p]
    /\ prev_pos = NoPos
    /\ current_pos = NoPos
    /\ settings = [brush_radius |-> DEFAULT_BRUSH_RADIUS, draw_matter |-> DRAW_MATTER]
    /\ done = {"draw_matter", "simulate", "user_interface"}
    /\ running = {}
    /\ stroke = NoStroke
    /\ write_guard = FALSE
    /\ gpu_in_flight = FALSE
    /\ dispatched = <<NUM_WORK_GROUPS_X, NUM_WORK_GROUPS_Y>>
    /\ frame_log = <<"step">>
    /\ last_stroke = NoStroke
    /\ stepped_since_write = TRUE
    /\ render_history = <<>>
    /\ control_events = 0
    /\ cursor \in {NoCursor, VZero, ViewportCentre(window)}
    /\ left_pressed = FALSE

NextCamera ==
    \/ InputActions
    \/ UpdateCamera
    \/ UpdateMouse

SpecCamera == InitCamera /\ [][NextCamera]_vars

(***************************************************************************)
(* Properties.                                                             *)
(***************************************************************************)
InGrid(p) ==
    /\ 0 <= p[1] /\ p[1] < CANVAS_SIZE_X
    /\ 0 <= p[2] /\ p[2] < CANVAS_SIZE_Y

GridCells == (0 .. CANVAS_SIZE_X - 1) \X (0 .. CANVAS_SIZE_Y - 1)
BufferRange == 0 .. (CANVAS_SIZE_X * CANVAS_SIZE_Y - 1)

\* position of cell (x, y) in a grid buffer, row by row
RowMajor(p) == p[2] * CANVAS_SIZE_X + p[1]

\* round(sqrt(dx^2 + dy^2)) <= r, for r >= 0: the distance is below floor(r) + 1/2
WithinBrush(p, c, r) ==
    LET dx == p[1] - c[1]
        dy == p[2] - c[2]
        k  == r[1] \div r[2]
    IN  4 * (dx * dx + dy * dy) < (2 * k + 1) * (2 * k + 1)

\* the completed stroke wrote the matter id into cell p
CellWritten(p) ==
    /\ InGrid(p)
    /\ RowMajor(p) \in last_stroke.writes
    /\ matter_in[RowMajor(p)] = last_stroke.matter

SinglePointStroke == last_stroke # NoStroke /\ Len(last_stroke.line) = 1

\* C1 as stated: after a single-point stroke at (cx, cy) with radius r and matter m,
\* a cell is written with m iff its rounded distance to (cx, cy) is <= r and it is
\* inside the grid, for every centre, also one outside the grid; no write falls
\* outside the grid.
C1_StampAnyCentre ==
    SinglePointStroke =>
        /\ \A p \in GridCells :
              CellWritten(p) <=> WithinBrush(p, last_stroke.line[1], last_stroke.radius)
        /\ last_stroke.writes \subseteq BufferRange

\* C1 amended: the equivalence holds for every centre inside the grid; a stroke
\* whose centre is outside the grid writes no cell at all; no write falls outside
\* the grid.
C1_StampCentreInside ==
    SinglePointStroke =>
        /\ InGrid(last_stroke.line[1]) =>
              \A p \in GridCells :
                  CellWritten(p) <=> WithinBrush(p, last_stroke.line[1], last_stroke.radius)
        /\ ~InGrid(last_stroke.line[1]) => last_stroke.writes = {}
        /\ last_stroke.writes \subseteq BufferRange

\* a single-point stroke whose disc is cut by the edge of the grid and does not
\* cover the grid
C1_Witness ==
    /\ SinglePointStroke
    /\ InGrid(last_stroke.line[1])
    /\ \E q \in (-2 .. CANVAS_SIZE_X + 1) \X (-2 .. CANVAS_SIZE_Y + 1) :
          ~InGrid(q) /\ WithinBrush(q, last_stroke.line[1], last_stroke.radius)
    /\ \E p \in GridCells : CellWritten(p)
    /\ \E p \in GridCells : ~CellWritten(p)

\* C3: draw_matter never fails, whatever the line, the radius and the matter id:
\* the process does not panic and every write of a call, in progress or completed,
\* uses an index in [0, width * height) of the grid buffer.
C3_WritesInBounds ==
    /\ pc # "panicked"
    /\ stroke # NoStroke =>
          \A ws \in {DrawWrites(stroke.line, 1, stroke.radius)} :
              \A k \in 1 .. Len(ws) : ws[k] \in BufferRange
    /\ last_stroke # NoStroke => last_stroke.writes \subseteq BufferRange

\* a completed stroke with walk points outside and inside the grid and a disc cut
\* by the edge
C3_Witness ==
    /\ last_stroke # NoStroke
    /\ \E k \in 1 .. Len(last_stroke.line) : ~InGrid(last_stroke.line[k])
    /\ \E k \in 1 .. Len(last_stroke.line) :
          /\ InGrid(last_stroke.line[k])
          /\ \E q \in (-2 .. CANVAS_SIZE_X + 1) \X (-2 .. CANVAS_SIZE_Y + 1) :
                ~InGrid(q) /\ WithinBrush(q, last_stroke.line[k], last_stroke.radius)
    /\ last_stroke.writes # {}

\* the integer nearest to the rational q, halves away from zero
NearestInt(q) ==
    CHOOSE n \in -64 .. 64 :
        \/ 2 * Abs(n * q[2] - q[1]) < q[2]
        \/ 2 * Abs(n * q[2] - q[1]) = q[2] /\ Abs(n) * q[2] > Abs(q[1])

NearestCell(v) == <<NearestInt(v[1]), NearestInt(v[2])>>
Max(a, b) == IF a > b THEN a ELSE b

WalkFrom == NearestCell(canvas_pos(IF prev_pos # NoPos THEN prev_pos ELSE current_pos))
WalkTo == NearestCell(canvas_pos(current_pos))

NonDecreasing(line) ==
    \A k \in 1 .. Len(line) - 1 :
        line[k][1] <= line[k + 1][1] /\ line[k][2] <= line[k + 1][2]

NonIncreasing(line) ==
    \A k \in 1 .. Len(line) - 1 :
        line[k][1] >= line[k + 1][1] /\ line[k][2] >= line[k + 1][2]

WalkEndpoints(line) == Len(line) >= 1 /\ line[1] = WalkFrom /\ line[Len(line)] = WalkTo

EqualStep == WalkTo[1] - WalkFrom[1] = WalkTo[2] - WalkFrom[2]

WalkLength(line) ==
    Len(line) = Max(Abs(WalkTo[1] - WalkFrom[1]), Abs(WalkTo[2] - WalkFrom[2])) + 1

\* C4 as stated: the line of get_canvas_line starts at the rounded previous canvas
\* position and ends at the rounded current one; when the step is the same in both
\* axes it has max(|dx|, |dy|) + 1 points and is non-decreasing in both axes.
C4_WalkNonDecreasing ==
    stroke # NoStroke =>
        /\ WalkEndpoints(stroke.line)
        /\ EqualStep => WalkLength(stroke.line) /\ NonDecreasing(stroke.line)

\* C4 amended: the same, with the walk monotone in its direction of travel:
\* non-decreasing in both axes when the common step is >= 0, non-increasing in both
\* axes when it is <= 0.
C4_WalkMonotone ==
    stroke # NoStroke =>
        /\ WalkEndpoints(stroke.line)
        /\ EqualStep =>
              /\ WalkLength(stroke.line)
              /\ WalkTo[1] >= WalkFrom[1] => NonDecreasing(stroke.line)
              /\ WalkTo[1] <= WalkFrom[1] => NonIncreasing(stroke.line)

\* a diagonal walk of four points from a previous position, both of whose ends
\* are not integers before rounding
C4_Witness ==
    /\ stroke # NoStroke
    /\ prev_pos # NoPos
    /\ EqualStep
    /\ WalkTo[1] - WalkFrom[1] = 3
    /\ canvas_pos(prev_pos)[1][2] = 2
    /\ canvas_pos(current_pos)[2][2] = 2

\* C2: the linear index used for grid writes is injective over the grid, for every
\* size of grid the simulator is constructed with: distinct in-grid coordinates
\* get distinct indices.
C2_IndexInjective ==
    matter_in # NoBuffer =>
        \A p \in GridCells, q \in GridCells : p # q => index(p) # index(q)

FrameEvents == {frame_log[k] : k \in 1 .. Len(frame_log)}

Precedes(a, b) ==
    \A i \in 1 .. Len(frame_log), j \in 1 .. Len(frame_log) :
        frame_log[i] = a /\ frame_log[j] = b => i < j

\* C5: in every frame the brush write of that frame comes before the dispatch of
\* step(), and the dispatch comes before the compositor draw and the present.
C5_BrushBeforeStep ==
    /\ Precedes("brush", "step")
    /\ Precedes("step", "draw")
    /\ Precedes("step", "present")

\* C6: whenever draw_matter holds write access to the current grid, no dispatch of
\* an earlier step() is still executing; step() never returns with its dispatch
\* unfinished.
C6_NoWriteDuringDispatch ==
    /\ write_guard => ~gpu_in_flight
    /\ "simulate" \notin running => ~gpu_in_flight

\* draw_matter writes the grid that an earlier step() has been dispatched on
C6_Witness == write_guard /\ dispatched # NoDispatch /\ "simulate" \in done

ColourOfGrid == [i \in DOMAIN matter_in |-> matter_color(matter_in[i])]

StepReturns == "simulate" \in running /\ "simulate" \notin running'

\* C7: step() leaves both grids as they are, the colour image after step() is
\* the colouring of the current grid, and a step() that follows a step() with no
\* brush write in between leaves the colour image unchanged.
C7_StepStable ==
    [][StepReturns =>
          /\ matter_in' = matter_in
          /\ matter_out' = matter_out
          /\ image' = ColourOfGrid
          /\ stepped_since_write => image' = image]_vars

\* the step() of the second frame has run on a painted grid with no brush write
\* since the step() of the first frame
C7_Witness ==
    /\ frame = 2
    /\ "simulate" \in done
    /\ "draw_matter" \in done
    /\ last_stroke = NoStroke
    /\ stepped_since_write
    /\ \E i \in DOMAIN matter_in : matter_in[i] # EMPTY_MATTER
    /\ \E i \in DOMAIN image : image[i] = matter_color(DRAW_MATTER)

RenderFails ==
    /\ Len(render_history') = Len(render_history) + 1
    /\ render_history'[Len(render_history')] = "failed"

ReadyToRender == pc = "update" /\ done = Systems /\ running = {}

\* C8: a frame whose acquire fails draws nothing, composites no GUI and presents
\* nothing, the process goes on, simulator, camera and pointer state are unchanged
\* by it, and every frame attempts the acquire, whatever happened before.
C8_SkippedFrame ==
    /\ [][RenderFails =>
             /\ frame_log' = frame_log
             /\ pc' = "idle"
             /\ <<matter_in, matter_out, image, dispatched, gpu_in_flight>>' =
                    <<matter_in, matter_out, image, dispatched, gpu_in_flight>>
             /\ camera' = camera
             /\ <<prev_pos, current_pos>>' = <<prev_pos, current_pos>>]_vars
    /\ [](FrameEvents \cap {"draw", "gui", "present"} # {} =>
             render_history[Len(render_history)] = "acquired")
    /\ [](ReadyToRender => ENABLED Render)
    /\ [](pc = "idle" => Len(render_history) = frame)

\* a skipped frame followed by a presented one
C8_Witness ==
    /\ render_history = <<"failed", "acquired">>
    /\ FrameEvents \cap {"draw", "gui", "present"} # {}

\* C9: construction aborts, before any grid buffer exists, exactly when the canvas
\* width is not a multiple of the tile width or the canvas height is not a multiple
\* of the tile height.
C9_ConstructionCheck ==
    pc # "start" =>
        /\ pc = "aborted" <=>
              (CANVAS_SIZE_X % LOCAL_SIZE_X # 0 \/ CANVAS_SIZE_Y % LOCAL_SIZE_Y # 0)
        /\ pc = "aborted" => matter_in = NoBuffer /\ matter_out = NoBuffer
        /\ pc # "aborted" => DOMAIN matter_in = BufferRange /\ DOMAIN matter_out = BufferRange

\* construction aborted on the height alone
C9_Witness ==
    /\ pc = "aborted"
    /\ CANVAS_SIZE_X % LOCAL_SIZE_X = 0
    /\ CANVAS_SIZE_Y % LOCAL_SIZE_Y # 0

CeilDiv(a, b) == (a + b - 1) \div b

\* the cells covered by tile g and local id l of a dispatch
TileCell(g, l) == <<g[1] * LOCAL_SIZE_X + l[1], g[2] * LOCAL_SIZE_Y + l[2]>>

TileIds(groups) ==
    ((0 .. groups[1] - 1) \X (0 .. groups[2] - 1)) \X
    ((0 .. LOCAL_SIZE_X - 1) \X (0 .. LOCAL_SIZE_Y - 1))

\* C10: step() dispatches canvas / tile work groups along each axis, which is
\* ceil(canvas / tile), and the tiles cover every cell of the grid exactly once,
\* with no invocation outside the grid.
C10_DispatchCoversGrid ==
    dispatched # NoDispatch =>
        /\ dispatched[1] * LOCAL_SIZE_X = CANVAS_SIZE_X
        /\ dispatched[2] * LOCAL_SIZE_Y = CANVAS_SIZE_Y
        /\ dispatched = <<CeilDiv(CANVAS_SIZE_X, LOCAL_SIZE_X),
                          CeilDiv(CANVAS_SIZE_Y, LOCAL_SIZE_Y)>>
        /\ \A c \in GridCells :
              Cardinality({t \in TileIds(dispatched) : TileCell(t[1], t[2]) = c}) = 1
        /\ \A t \in TileIds(dispatched) : InGrid(TileCell(t[1], t[2]))

\* a dispatch over a grid that is not square, in more than one tile per axis
C10_Witness ==
    /\ dispatched # NoDispatch
    /\ CANVAS_SIZE_X # CANVAS_SIZE_Y
    /\ dispatched[1] > 1
    /\ LOCAL_SIZE_Y > 1

MouseUpdated == "update_mouse" \notin done /\ "update_mouse" \in done'

\* C11: update_mouse, converting a cursor at the centre pixel (width / 2,
\* height / 2) of the window with the camera position at (0, 0), yields the world
\* position (0, 0), for every camera scale and every window size.
C11_CentreToOrigin ==
    [][(MouseUpdated /\ cursor = ViewportCentre(window) /\ camera.pos = VZero)
          => current_pos' = VZero]_vars

\* C12: the camera scale is strictly positive after the startup zoom-to-fit and
\* after any sequence of scroll events, pans and viewport updates.
C12_ScalePositive ==
    camera # NoCamera => RLess(RInt(0), camera.scale)

\* input_actions and update_camera have run on a scale that scrolling has brought
\* below the smallest normal number, where a further scroll event leaves it as it is
C12_Witness ==
    /\ "input_actions" \in done
    /\ "update_camera" \in done
    /\ RLess(camera.scale, RPow2(F32_EMIN))
    /\ zoom_tick(camera.scale, 1) = camera.scale
    /\ camera.pos # VZero

\* C13: for every grid size and every cell (x, y) of the grid, the index that
\* draw_matter writes the cell at is y * width + x.
C13_IndexRowMajor ==
    matter_in # NoBuffer => \A p \in GridCells : index(p) = RowMajor(p)

BrushReturns == "draw_matter" \in running /\ "draw_matter" \notin running'

FarFromWalk(p, line, r) == \A k \in 1 .. Len(line) : ~WithinBrush(p, line[k], r)

\* C14: a call of draw_matter leaves every cell of the current grid whose rounded
\* distance to every point of the line is greater than the radius as it was, every
\* cell it changes holds the given matter id afterwards, and the scratch grid and
\* the colour image are as before the call.
C14_BrushFrame ==
    [][BrushReturns =>
          /\ DOMAIN matter_in' = DOMAIN matter_in
          /\ \A p \in GridCells :
                FarFromWalk(p, stroke.line, stroke.radius) =>
                    matter_in'[RowMajor(p)] = matter_in[RowMajor(p)]
          /\ \A i \in DOMAIN matter_in :
                matter_in'[i] # matter_in[i] => matter_in'[i] = stroke.matter
          /\ matter_out' = matter_out
          /\ image' = image]_vars

\* a stroke of more than one point over a painted grid: it has changed a cell, and
\* far from the walk a painted cell and an empty cell are as they were
C14_Witness ==
    /\ last_stroke # NoStroke
    /\ Len(last_stroke.line) > 1
    /\ \E i \in last_stroke.writes : PaintedGrid[i] = EMPTY_MATTER
    /\ \E p \in GridCells :
          /\ FarFromWalk(p, last_stroke.line, last_stroke.radius)
          /\ PaintedGrid[RowMajor(p)] = DRAW_MATTER
          /\ matter_in[RowMajor(p)] = DRAW_MATTER
    /\ \E p \in GridCells :
          /\ FarFromWalk(p, last_stroke.line, last_stroke.radius)
          /\ matter_in[RowMajor(p)] = EMPTY_MATTER
    /\ \E i \in DOMAIN image : image[i] = matter_color(DRAW_MATTER)

BrushApplied == stroke # NoStroke \/ last_stroke # NoStroke

\* C15: the previous and the current pointer position are absent until a cursor
\* position is first observed; every update_mouse sets previous to the value
\* current had and replaces current by the world position of the cursor only when
\* the cursor is inside the window; and in every frame update_mouse has run before
\* the brush of that frame reads the trail.
C15_PointerTrail ==
    /\ [](current_pos = NoPos => prev_pos = NoPos)
    /\ [][current_pos = NoPos /\ current_pos' # NoPos
             => MouseUpdated /\ cursor # NoCursor]_vars
    /\ [][MouseUpdated =>
             /\ prev_pos' = current_pos
             /\ current_pos' =
                    IF cursor # NoCursor
                    THEN VSub(VScale(VSub(cursor, ViewportCentre(window)), camera.scale),
                              camera.pos)
                    ELSE current_pos]_vars
    /\ [][~MouseUpdated => <<prev_pos, current_pos>>' = <<prev_pos, current_pos>>]_vars
    /\ [](BrushApplied => "update_mouse" \in done)

GridEmpty(buf) == \A i \in DOMAIN buf : buf[i] = EMPTY_MATTER

\* C16: the current grid changes only in a frame in which the left button is
\* pressed and a current pointer position has been observed, and only by the brush;
\* the scratch grid never changes; both grids are zero-filled by construction, so
\* they are empty until the first such frame; and the stroke of a frame with no
\* previous position is the single rounded current point.
C16_GridChangesOnlyWhenDrawing ==
    /\ [][matter_in # NoBuffer /\ matter_in' # matter_in
             => left_pressed /\ current_pos # NoPos /\ BrushReturns]_vars
    /\ [][matter_out # NoBuffer => matter_out' = matter_out]_vars
    /\ [][pc = "start" /\ pc' = "idle"
             => /\ DOMAIN matter_in' = BufferRange /\ GridEmpty(matter_in')
                /\ DOMAIN matter_out' = BufferRange /\ GridEmpty(matter_out')]_vars
    /\ [](current_pos = NoPos \/ (frame <= 1 /\ ~left_pressed)
             => GridEmpty(matter_in) /\ GridEmpty(matter_out))
    /\ [][stroke = NoStroke /\ stroke' # NoStroke /\ prev_pos = NoPos
             => stroke'.line = <<NearestCell(canvas_pos(current_pos))>>]_vars

\* the first stroke, in the second frame, after a first frame that drew nothing:
\* one point, written into the grid
C16_Witness ==
    /\ frame = 2
    /\ last_stroke # NoStroke
    /\ prev_pos = NoPos
    /\ left_pressed
    /\ Len(last_stroke.line) = 1
    /\ ~GridEmpty(matter_in)
    /\ GridEmpty(matter_out)

====
